---- MODULE Spec2Model ----
(***************************************************************************)
(* PayWay: the asynchronous charge-processing pipeline.                    *)
(*                                                                         *)
(*   routes/charges.js  the Charge API Facade (create, read, metadata,     *)
(*                      capture)                                           *)
(*   utils/queue.js     the in-memory job queue                            *)
(*   utils/worker.js    the Worker Loop (setInterval) and the Settlement   *)
(*                      Procedure (processJob)                             *)
(*   schema (charges)   the Charge Store: one row per id (PRIMARY KEY)     *)
(*                                                                         *)
(* The facade and the worker run in one Node process and share the queue   *)
(* module.  JavaScript runs each callback to its next await atomically, so *)
(* one action is one such run; the store executes each query atomically at *)
(* some later moment, in no fixed order between settlements.               *)
(***************************************************************************)
EXTENDS Integers, Sequences, FiniteSets, Bags, TLC

\* ------------------------------------------------------------- bounds

\* Jobs enqueued in one run (the queue itself is unbounded).
MaxJobs == 2

\* Store queries that fail (store unreachable, constraint other than the
\* primary key) in one run.
MaxStoreFailures == 1

\* Capture requests that are between their SELECT and their UPDATE at one
\* moment.
MaxCaptures == 2

\* ------------------------------------------------------------- inputs

ChargeIds == 1 .. MaxJobs

Merchants == {"m1", "m2"}

\* Request amounts: 0 stands for a missing amount (falsy in validateCharge).
Amounts == {0, 500}

\* "" stands for an absent or empty source token.
Sources == {"valid_token", "bad_token", ""}

MetadataValues == {"meta"}

Serials == 1 .. MaxJobs

\* ------------------------------------------------------------- queue.js

VARIABLES
    queue,        \* queue.js: the array `queue`
    jobs,         \* history: every job ever enqueued, in enqueue order
    dispatched,   \* history: serials of the jobs dequeued, in dequeue order
    pc,           \* worker.js: where each job's processJob call stands
    charges,      \* the charges table: id -> row, for the ids that have a row
    insertedBy,   \* history: the serial of the job whose INSERT created the row
    storeFailed,  \* history: the queries of each job's settlement that failed
    alive,        \* the Node process is running
    captures      \* capture requests between their SELECT and their UPDATE:
                  \* a bag, two requests may name the same charge

vars == << queue, jobs, dispatched, pc, charges, insertedBy, storeFailed, alive,
           captures >>

\* The charge object built by router.post('/') .
NewCharge(id, merchantId, amount) ==
    [id |-> id, merchant_id |-> merchantId, amount |-> amount,
     currency |-> "usd", status |-> "pending", description |-> "d"]

\* { type: 'process_charge', data: { ...charge, source } }; n is the job's
\* serial number in the history, not a field of the program's job.
NewJob(charge, source, n) ==
    [type |-> "process_charge",
     data |-> [id |-> charge.id, merchant_id |-> charge.merchant_id,
               amount |-> charge.amount, currency |-> charge.currency,
               status |-> charge.status, description |-> charge.description,
               source |-> source],
     n |-> n]

\* Mutant: the job is put at the head (unshift for push).
Push_Mut(q, job) == << job >> \o q

\* queue.push(job)
Push(q, job) == Append(q, job)

\* Mutant: the dequeue reads the head and leaves it queued (queue[0] for
\* shift).
Shift_MutPeek(q) == q

\* Mutant: the dequeue empties the array (splice(0) for shift).
Shift_Mut(q) == << >>

\* queue.shift(): the queue left behind
Shift(q) == IF q = << >> THEN q ELSE Tail(q)

\* Mutant: the dequeue returns the last job (pop for shift).
Front_Mut(q) == q[Len(q)]

\* queue.shift(): the job returned; only used on a non-empty queue
\* (undefined on an empty one, which the caller tests with `if (job)`).
Front(q) == Head(q)

\* ------------------------------------------------------------- the store

\* Mutant: the INSERT's parameters are out of order, the description lands
\* in the currency column and the currency in the description.
ChargeRow_Mut(data, status) ==
    [id |-> data.id, merchant_id |-> data.merchant_id, amount |-> data.amount,
     currency |-> data.description, status |-> status,
     description |-> data.currency, metadata |-> "null"]

\* A row of the charges table, as the worker's INSERT writes it (metadata
\* is not among the inserted columns and stays NULL).
ChargeRow(data, status) ==
    [id |-> data.id, merchant_id |-> data.merchant_id, amount |-> data.amount,
     currency |-> data.currency, status |-> status,
     description |-> data.description, metadata |-> "null"]

HasRow(store, id) == id \in DOMAIN store

\* Mutant: the table has no primary key, an INSERT replaces the row.
PrimaryKeyConflict_Mut(store, id) == FALSE

\* id VARCHAR(255) PRIMARY KEY: an INSERT of an id that has a row is refused.
PrimaryKeyConflict(store, id) == HasRow(store, id)

\* Mutant: the INSERT is acknowledged and the row is not stored.
InsertCharge_Mut(store, data, status) == store

\* INSERT INTO charges(...) VALUES(...) on a store with no row of that id.
InsertCharge(store, data, status) ==
    (data.id :> ChargeRow(data, status)) @@ store

\* Mutant: the UPDATE resets the row's metadata as well.
UpdateStatus_MutReset(store, id, status) ==
    IF HasRow(store, id)
    THEN [store EXCEPT ![id].status = status, ![id].metadata = "null"]
    ELSE store

\* Mutant: the UPDATE matches no row.
UpdateStatus_Mut(store, id, status) == store

\* The worker's UPDATE charges SET status = $1 WHERE id = $2.
UpdateStatus(store, id, status) ==
    IF HasRow(store, id) THEN [store EXCEPT ![id].status = status] ELSE store

\* Mutant: the facade's queries match on the id alone.
ScopedRows_Mut(store, id, merchantId) ==
    IF HasRow(store, id) THEN {store[id]} ELSE {}

\* The rows a facade query selects: WHERE id = $1 AND merchant_id = $2.
ScopedRows(store, id, merchantId) ==
    IF HasRow(store, id) /\ store[id].merchant_id = merchantId
    THEN {store[id]} ELSE {}

\* ------------------------------------------------------------- worker.js

\* Mutant: only a missing source is rejected.
SourceRejected_Mut(source) == source = ""

\* if (!source || source !== 'valid_token') throw ...
SourceRejected(source) == source = "" \/ source # "valid_token"

\* Mutant: the try block inserts the row as succeeded.
PendingStatus_Mut == "succeeded"

\* The status the try block inserts, the status it updates to, and the
\* status the catch block inserts.
PendingStatus == "pending"

\* Mutant: the try block's UPDATE authorizes the charge.
SucceededStatus_Mut == "authorized"

SucceededStatus == "succeeded"

FailedStatus == "failed"

\* What an unhandled promise rejection does to the process: Node's
\* --unhandled-rejections mode, "throw" (the default since Node 15) ends the
\* process, "warn" (the default before) prints a warning.  The mode is the
\* same for the whole run: a process that has survived a rejection runs in
\* mode "warn".
RejectionModes ==
    IF \E k \in Serials : pc[k] = "rejected" THEN {"warn"}
                                              ELSE {"throw", "warn"}

Job(n) == jobs[n]

Enqueued == 1 .. Len(jobs)

UsedIds == { jobs[n].data.id : n \in Enqueued }

Init ==
    /\ queue = << >>
    /\ jobs = << >>
    /\ dispatched = << >>
    /\ pc = [n \in Serials |-> "idle"]
    /\ charges = << >>
    /\ insertedBy = << >>
    /\ storeFailed = [n \in Serials |-> {}]
    /\ alive = TRUE
    /\ captures = EmptyBag

\* The three queries of a settlement.
Steps == {"insert_pending", "update", "insert_failed"}

FailureCount == Cardinality({p \in Serials \X Steps : p[2] \in storeFailed[p[1]]})

\* A query of job n's settlement either executes (ok) or fails for a reason
\* other than the primary key (store unreachable, another constraint); these
\* failures are recorded.  A failed query of the facade changes nothing and
\* needs no record.
StoreOutcome(n, step, ok) ==
    /\ ok \/ FailureCount < MaxStoreFailures
    /\ storeFailed' = IF ok THEN storeFailed
                     ELSE [storeFailed EXCEPT ![n] = @ \cup {step}]

\* Mutant: enqueue pushes the job twice.
EnqueueJob_Mut(job) ==
    /\ queue' = Push(Push(queue, job), job)
    /\ jobs' = Append(jobs, job)

\* enqueue(job) of queue.js, with the history of enqueued jobs.
EnqueueJob(job) ==
    /\ queue' = Push(queue, job)
    /\ jobs' = Append(jobs, job)

\* A caller of the queue module hands it a job of its own making.
Enqueue(charge, source) ==
    /\ alive
    /\ Len(jobs) < MaxJobs
    /\ EnqueueJob(NewJob(charge, source, Len(jobs) + 1))
    /\ UNCHANGED << dispatched, pc, charges, insertedBy, storeFailed, alive,
                    captures >>

\* `ch_${uuidv4()}`: an id no job has carried.  Ids are opaque, so the
\* least unused one stands for any of them.
FreshId == CHOOSE id \in ChargeIds \ UsedIds :
               \A other \in ChargeIds \ UsedIds : id <= other

\* validateCharge: !amount || !currency || !source (the currency is always
\* given here).
ChargeRequestInvalid(amount, source) == amount = 0 \/ source = ""

\* The response of router.post('/'): 400 from validateCharge, else 202 with
\* the charge object.
CreateChargeResponse(merchantId, amount, source) ==
    IF ChargeRequestInvalid(amount, source)
    THEN [code |-> 400]
    ELSE [code |-> 202, body |-> NewCharge(FreshId, merchantId, amount)]

\* router.post('/') behind validateCharge.
CreateCharge(merchantId, amount, source) ==
    /\ alive
    /\ IF ChargeRequestInvalid(amount, source)
       THEN UNCHANGED << queue, jobs >>
       ELSE /\ Len(jobs) < MaxJobs
            /\ EnqueueJob(NewJob(NewCharge(FreshId, merchantId, amount),
                                 source, Len(jobs) + 1))
    /\ UNCHANGED << dispatched, pc, charges, insertedBy, storeFailed, alive,
                    captures >>

\* The synchronous start of processJob(job): validation, and the query it
\* leaves in flight at its first await.
FirstAwait(job) ==
    IF job.type = "process_charge"
    THEN IF SourceRejected(job.data.source) THEN "insert_failed"
                                            ELSE "insert_pending"
    ELSE "done"

\* Mutant: the worker takes the next job only when no settlement is in
\* flight (a loop that awaits processJob before it dequeues again).
TimerFires_Mut ==
    alive /\ \A n \in Serials : pc[n] \in {"idle", "done", "rejected"}

\* setInterval(..., 3000) fires its callback for as long as the process
\* lives; the callback does not await processJob, so no tick waits for a
\* settlement.
TimerFires == alive

\* One firing of the setInterval callback.
Tick ==
    /\ TimerFires
    /\ IF queue = << >>
       THEN UNCHANGED << queue, dispatched, pc >>
       ELSE LET job == Front(queue) IN
              /\ queue' = Shift(queue)
              /\ dispatched' = Append(dispatched, job.n)
              /\ pc' = [pc EXCEPT ![job.n] = FirstAwait(job)]
    /\ UNCHANGED << jobs, charges, insertedBy, storeFailed, alive, captures >>

\* The store executes the try block's INSERT ... 'pending'.  A failure (the
\* store, or the primary key) is thrown into the catch block, which sends
\* the fallback INSERT.
InsertPending(n, ok) ==
    /\ alive
    /\ pc[n] = "insert_pending"
    /\ StoreOutcome(n, "insert_pending", ok)
    /\ LET data == Job(n).data IN
         IF ok /\ ~PrimaryKeyConflict(charges, data.id)
         THEN /\ charges' = InsertCharge(charges, data, PendingStatus)
              /\ insertedBy' = (data.id :> n) @@ insertedBy
              /\ pc' = [pc EXCEPT ![n] = "sleep"]
         ELSE /\ pc' = [pc EXCEPT ![n] = "insert_failed"]
              /\ UNCHANGED << charges, insertedBy >>
    /\ UNCHANGED << queue, jobs, dispatched, alive, captures >>

\* The 2000 ms timer has fired and the store executes the UPDATE to
\* 'succeeded' (an UPDATE that matches no row is no error).
UpdateSucceeded(n, ok) ==
    /\ alive
    /\ pc[n] = "sleep"
    /\ StoreOutcome(n, "update", ok)
    /\ IF ok
       THEN /\ charges' = UpdateStatus(charges, Job(n).data.id, SucceededStatus)
            /\ pc' = [pc EXCEPT ![n] = "done"]
       ELSE /\ pc' = [pc EXCEPT ![n] = "insert_failed"]
            /\ UNCHANGED charges
    /\ UNCHANGED << queue, jobs, dispatched, insertedBy, alive, captures >>

\* An error thrown inside the catch block rejects processJob's promise,
\* which startWorker never handles.
Rejected(n) ==
    /\ pc' = [pc EXCEPT ![n] = "rejected"]
    /\ \E mode \in RejectionModes : alive' = (mode # "throw")

\* The store executes the catch block's INSERT ... 'failed'.
InsertFailed(n, ok) ==
    /\ alive
    /\ pc[n] = "insert_failed"
    /\ StoreOutcome(n, "insert_failed", ok)
    /\ LET data == Job(n).data IN
         IF ok /\ ~PrimaryKeyConflict(charges, data.id)
         THEN /\ charges' = InsertCharge(charges, data, FailedStatus)
              /\ insertedBy' = (data.id :> n) @@ insertedBy
              /\ pc' = [pc EXCEPT ![n] = "done"]
              /\ UNCHANGED alive
         ELSE /\ Rejected(n)
              /\ UNCHANGED << charges, insertedBy >>
    /\ UNCHANGED << queue, jobs, dispatched, captures >>

\* ------------------------------------------------------------- charges.js

\* A query of the facade that fails (ok = FALSE) is answered 500 and changes
\* nothing: the responses below say so, and the actions are the steps of the
\* requests whose queries execute.

\* The response of router.get('/:id').
GetChargeResponse(id, merchantId, ok) ==
    IF ~ok THEN [code |-> 500]
    ELSE IF ScopedRows(charges, id, merchantId) = {} THEN [code |-> 404]
    ELSE [code |-> 200, body |-> charges[id]]

\* router.get('/:id'): one SELECT, no write.
GetCharge(id, merchantId) ==
    /\ alive
    /\ UNCHANGED vars

\* Mutant: the UPDATE also sets merchant_id from its third parameter and
\* matches on the id alone.
SetMetadata_Mut(store, id, merchantId, metadata) ==
    IF HasRow(store, id)
    THEN [store EXCEPT ![id].metadata = metadata, ![id].merchant_id = merchantId]
    ELSE store

\* UPDATE charges SET metadata = $1 WHERE id = $2 AND merchant_id = $3.
SetMetadata(store, id, merchantId, metadata) ==
    IF ScopedRows(store, id, merchantId) # {}
    THEN [store EXCEPT ![id].metadata = metadata]
    ELSE store

\* The response of router.post('/:id'): the row the UPDATE returns.
UpdateMetadataResponse(id, merchantId, metadata, ok) ==
    IF ~ok THEN [code |-> 500]
    ELSE IF ScopedRows(charges, id, merchantId) = {} THEN [code |-> 404]
    ELSE [code |-> 200,
          body |-> SetMetadata(charges, id, merchantId, metadata)[id]]

\* router.post('/:id') behind validateMetadata.
UpdateMetadata(id, merchantId, metadata) ==
    /\ alive
    /\ charges' = SetMetadata(charges, id, merchantId, metadata)
    /\ UNCHANGED << queue, jobs, dispatched, pc, insertedBy, storeFailed, alive,
                    captures >>

\* What router.post('/:id/capture') answers after its SELECT, or "update"
\* when it goes on to the UPDATE.
CaptureSelectResponse(id, merchantId, ok) ==
    IF ~ok THEN [code |-> 500]
    ELSE IF ScopedRows(charges, id, merchantId) = {} THEN [code |-> 404]
    ELSE IF charges[id].status # "authorized" THEN [code |-> 400]
    ELSE [code |-> 0, next |-> "update"]

\* router.post('/:id/capture') up to its second await.
CaptureSelect(id, merchantId) ==
    /\ alive
    /\ IF CaptureSelectResponse(id, merchantId, TRUE).code = 0
       THEN /\ BagCardinality(captures) < MaxCaptures
            /\ captures' = captures (+)
                              SetToBag({[id |-> id, merchant_id |-> merchantId]})
       ELSE UNCHANGED captures
    /\ UNCHANGED << queue, jobs, dispatched, pc, charges, insertedBy, storeFailed,
                    alive >>

\* UPDATE charges SET status = 'captured' WHERE id = $2 AND merchant_id = $3.
SetCaptured(store, id, merchantId) ==
    IF ScopedRows(store, id, merchantId) # {}
    THEN [store EXCEPT ![id].status = "captured"]
    ELSE store

\* res.json(rows[0]): the row the capture's UPDATE returns.
CaptureUpdateResponse(c) ==
    IF ScopedRows(charges, c.id, c.merchant_id) = {}
    THEN [code |-> 200]
    ELSE [code |-> 200, body |-> SetCaptured(charges, c.id, c.merchant_id)[c.id]]

\* The capture's UPDATE and its response.
CaptureUpdate(c) ==
    /\ alive
    /\ BagIn(c, captures)
    /\ captures' = captures (-) SetToBag({c})
    /\ charges' = SetCaptured(charges, c.id, c.merchant_id)
    /\ UNCHANGED << queue, jobs, dispatched, pc, insertedBy, storeFailed, alive >>

\* ------------------------------------------------------------- behaviours

JobAmounts == Amounts \ {0}

\* The ids a caller of the queue module may put in a job: one already
\* carried by a job (a duplicate) or a new one.
JobIds == IF Len(jobs) < MaxJobs THEN UsedIds \cup {FreshId} ELSE {}

\* The whole program, with a store that may fail and callers of the queue
\* module that may enqueue any job.
Next ==
    \/ \E m \in Merchants, a \in Amounts, s \in Sources : CreateCharge(m, a, s)
    \/ \E id \in JobIds, m \in Merchants, a \in JobAmounts, s \in Sources :
          Enqueue(NewCharge(id, m, a), s)
    \/ Tick
    \/ \E n \in Serials, ok \in BOOLEAN : InsertPending(n, ok)
    \/ \E n \in Serials, ok \in BOOLEAN : UpdateSucceeded(n, ok)
    \/ \E n \in Serials, ok \in BOOLEAN : InsertFailed(n, ok)
    \/ \E id \in ChargeIds, m \in Merchants : GetCharge(id, m)
    \/ \E id \in ChargeIds, m \in Merchants, md \in MetadataValues :
          UpdateMetadata(id, m, md)
    \/ \E id \in ChargeIds, m \in Merchants : CaptureSelect(id, m)

Spec == Init /\ [][Next]_vars

\* The program with a store that executes every query and with jobs that
\* each carry an id of their own, as the facade's uuids are.
NextReliable ==
    \/ \E m \in Merchants, a \in Amounts, s \in Sources : CreateCharge(m, a, s)
    \/ \E id \in JobIds \ UsedIds, m \in Merchants, a \in JobAmounts,
          s \in Sources :
          Enqueue(NewCharge(id, m, a), s)
    \/ Tick
    \/ \E n \in Serials : InsertPending(n, TRUE)
    \/ \E n \in Serials : UpdateSucceeded(n, TRUE)
    \/ \E n \in Serials : InsertFailed(n, TRUE)
    \/ \E id \in ChargeIds, m \in Merchants : GetCharge(id, m)
    \/ \E id \in ChargeIds, m \in Merchants, md \in MetadataValues :
          UpdateMetadata(id, m, md)
    \/ \E id \in ChargeIds, m \in Merchants : CaptureSelect(id, m)

SpecReliable == Init /\ [][NextReliable]_vars

\* setInterval fires for as long as the process lives, the 2000 ms timer
\* fires, and a store that does not fail answers every query sent to it.
Fairness ==
    /\ WF_vars(Tick)
    /\ \A n \in Serials : WF_vars(InsertPending(n, TRUE))
    /\ \A n \in Serials : WF_vars(UpdateSucceeded(n, TRUE))
    /\ \A n \in Serials : WF_vars(InsertFailed(n, TRUE))

FairReliable == SpecReliable /\ Fairness

\* The store as the pipeline finds it when another system has written an
\* authorized charge to the charges table (the pipeline itself writes only
\* pending, succeeded and failed): the row the capture endpoint is for.  Its
\* id is none of the ids the facade generates, but a caller of the queue
\* module may enqueue a job that carries it.
SeededIds == {0}

AllIds == ChargeIds \cup SeededIds

SeededRow(id) ==
    [id |-> id, merchant_id |-> "m1", amount |-> 500, currency |-> "usd",
     status |-> "authorized", description |-> "d", metadata |-> "null"]

InitSeeded ==
    /\ queue = << >>
    /\ jobs = << >>
    /\ dispatched = << >>
    /\ pc = [n \in Serials |-> "idle"]
    /\ charges = [id \in SeededIds |-> SeededRow(id)]
    /\ insertedBy = [id \in SeededIds |-> 0]
    /\ storeFailed = [n \in Serials |-> {}]
    /\ alive = TRUE
    /\ captures = EmptyBag

\* The sources of the jobs that carry the authorized charge's id (an empty
\* source takes the path of a wrong one).
SeededSources == {"valid_token", "bad_token"}

\* The program on that store, the store executing every query: charges are
\* created through the facade, and a caller of the queue module enqueues jobs
\* that carry the id of the authorized charge.
NextSeeded ==
    \/ \E m \in Merchants, a \in Amounts, s \in Sources : CreateCharge(m, a, s)
    \/ \E id \in SeededIds, m \in Merchants, a \in JobAmounts,
          s \in SeededSources :
          Enqueue(NewCharge(id, m, a), s)
    \/ Tick
    \/ \E n \in Serials : InsertPending(n, TRUE)
    \/ \E n \in Serials : UpdateSucceeded(n, TRUE)
    \/ \E n \in Serials : InsertFailed(n, TRUE)
    \/ \E id \in AllIds, m \in Merchants : GetCharge(id, m)
    \/ \E id \in AllIds, m \in Merchants, md \in MetadataValues :
          UpdateMetadata(id, m, md)
    \/ \E id \in AllIds, m \in Merchants : CaptureSelect(id, m)
    \/ \E c \in BagToSet(captures) : CaptureUpdate(c)

SpecSeeded == InitSeeded /\ [][NextSeeded]_vars

\* ------------------------------------------------------------- vocabulary

ChargeId(n) == jobs[n].data.id

Status(id) == charges[id].status

StatusIs(id, status) == HasRow(charges, id) /\ charges[id].status = status

\* Job n carries the accepted sentinel as its source token.
ValidSource(n) == jobs[n].data.source = "valid_token"

Dispatched(n) == pc[n] # "idle"

\* processJob's promise is settled, fulfilled or rejected.
Ended(n) == pc[n] \in {"done", "rejected"}

InFlight(n) == pc[n] \in {"insert_pending", "sleep", "insert_failed"}

Terminal(id) == StatusIs(id, "succeeded") \/ StatusIs(id, "failed")

\* No other job carries job n's charge id.
OwnId(n) == \A k \in Enqueued \ {n} : ChargeId(k) # ChargeId(n)

\* ------------------------------------------------------------- claims

\* C1: a charge is in status pending before it is in status succeeded: no
\* step takes a charge id from no row, or from any status but pending,
\* to succeeded.
C1_PendingBeforeSucceeded ==
    [][\A id \in ChargeIds :
          (StatusIs(id, "succeeded")' /\ ~StatusIs(id, "succeeded"))
              => StatusIs(id, "pending")]_vars

\* C1 witness: the settlement of a job with a valid source has ended and its
\* charge is succeeded.
C1_Witness ==
    \E n \in Enqueued :
        ValidSource(n) /\ pc[n] = "done" /\ StatusIs(ChargeId(n), "succeeded")

\* C2: the charge of a job whose source is absent, empty or not 'valid_token'
\* is never pending in the store, and it reaches status failed.
C2_InvalidSourceFails ==
    /\ [](\A n \in Enqueued :
            ~ValidSource(n) => ~StatusIs(ChargeId(n), "pending"))
    /\ \A n \in Serials :
          (n \in Enqueued /\ ~ValidSource(n))
              ~> (n \in Enqueued /\ StatusIs(ChargeId(n), "failed"))

\* C2 witness: jobs with an empty and with a wrong source have been settled
\* and their charges are failed.
C2_Witness ==
    \E n, k \in Enqueued :
        /\ jobs[n].data.source = "" /\ jobs[k].data.source = "bad_token"
        /\ pc[n] = "done" /\ StatusIs(ChargeId(n), "failed")
        /\ pc[k] = "done" /\ StatusIs(ChargeId(k), "failed")

\* C3: jobs are dequeued in the order they were enqueued: serials count the
\* enqueues, the dispatched serials increase, and every job still queued was
\* enqueued after every job dispatched and after the jobs queued before it.
C3_FifoDispatch ==
    /\ \A i, j \in DOMAIN dispatched : i < j => dispatched[i] < dispatched[j]
    /\ \A i, j \in DOMAIN queue : i < j => queue[i].n < queue[j].n
    /\ \A i \in DOMAIN dispatched, j \in DOMAIN queue : dispatched[i] < queue[j].n

\* C3 witness: two jobs were queued together and both have been dispatched.
C3_Witness == Len(dispatched) >= 2 /\ pc[2] = "insert_failed" /\ pc[1] = "sleep"

\* The queue is drained and no settlement is in flight.
Drained == queue = << >> /\ \A n \in Serials : ~InFlight(n)

\* C4: N enqueues of jobs with ids of their own, once the queue is drained
\* and the settlements have ended, leave exactly N charge records, one per
\* job and written by that job.
C4_DrainYieldsNRecords ==
    Drained =>
        /\ Cardinality(DOMAIN charges) = Len(jobs)
        /\ \A n \in Enqueued :
              HasRow(charges, ChargeId(n)) /\ insertedBy[ChargeId(n)] = n

\* C4 witness: all the jobs the bound allows were enqueued before the first
\* tick and the queue is drained.
C4_Witness == Drained /\ Len(jobs) = MaxJobs /\ Len(dispatched) = MaxJobs

\* C5: with fair ticking and a store that does not fail, every enqueued job
\* is dequeued and its charge reaches a terminal status.
C5_EveryJobSettles ==
    \A n \in Serials :
        (n \in Enqueued)
            ~> (n \in Enqueued /\ Dispatched(n) /\ Terminal(ChargeId(n)))

\* C5 witness: every job the bound allows has been settled, one succeeded
\* and one failed.
C5_Witness ==
    /\ Len(jobs) = MaxJobs
    /\ \A n \in Enqueued : pc[n] = "done" /\ Terminal(ChargeId(n))
    /\ \E n, k \in Enqueued :
          StatusIs(ChargeId(n), "succeeded") /\ StatusIs(ChargeId(k), "failed")

\* Job n is the first job to carry its charge id.
FirstCarrier(n) == \A k \in 1 .. (n - 1) : ChargeId(k) # ChargeId(n)

\* C6: a create request that passes validation is answered 202 with the
\* charge in status pending, appends exactly one process_charge job, which
\* carries that charge and the source, and writes nothing to the store; and
\* while a job that is the first to carry its id is queued, a read of its
\* charge by its merchant is answered 404.
C6_AsynchronousAccept ==
    /\ [][\A m \in Merchants, a \in Amounts, s \in Sources :
            (~ChargeRequestInvalid(a, s) /\ CreateCharge(m, a, s)) =>
                LET r == CreateChargeResponse(m, a, s) IN
                  /\ r.code = 202 /\ r.body.status = "pending"
                  /\ ~HasRow(charges', r.body.id)
                  /\ queue' = Append(queue, NewJob(r.body, s, Len(jobs) + 1))
                  /\ queue'[Len(queue')].type = "process_charge"
                  /\ charges' = charges]_vars
    /\ [](\A i \in DOMAIN queue :
            FirstCarrier(queue[i].n) =>
                GetChargeResponse(queue[i].data.id,
                                  queue[i].data.merchant_id, TRUE).code = 404)

\* C6 witness: a created charge waits in the queue with no row, while the
\* store holds the row of an earlier charge.
C6_Witness ==
    /\ Len(queue) = 1 /\ queue[1].n = 2 /\ queue[1].data.source = "bad_token"
    /\ ~HasRow(charges, queue[1].data.id)
    /\ HasRow(charges, ChargeId(1))

\* C7: once a charge's stored status is succeeded or failed, no step changes
\* it.
C7_TerminalImmutable ==
    [][\A id \in ChargeIds :
          Terminal(id) => (HasRow(charges', id) /\ Status(id)' = Status(id))]_vars

\* C7 witness: a terminal charge has had its metadata updated and a second
\* job carrying its id has been through its settlement.
C7_Witness ==
    \E n, k \in Enqueued :
        /\ n # k /\ ChargeId(n) = ChargeId(k)
        /\ Terminal(ChargeId(n)) /\ charges[ChargeId(n)].metadata = "meta"
        /\ Ended(n) /\ Ended(k)

\* C8: no settlement ends with an uncaught error: processJob's promise is
\* never rejected.
C8_NoUncaughtError == \A n \in Serials : pc[n] # "rejected"

\* C9: when the settlement of the only job carrying an id has ended after a
\* store failure at its pending insert or at its update, and the fallback
\* insert did not meet a store failure, the charge is recorded as failed.
C9_WriteFailureRecordsFailed ==
    \A n \in Enqueued :
        ( /\ Ended(n) /\ OwnId(n)
          /\ storeFailed[n] \cap {"insert_pending", "update"} # {}
          /\ "insert_failed" \notin storeFailed[n] )
            => StatusIs(ChargeId(n), "failed")

\* The settlement of job n has failed: at validation, at a query, or with a
\* rejected promise.
SettlementFailed(n) ==
    /\ n \in Enqueued /\ Dispatched(n)
    /\ ~ValidSource(n) \/ storeFailed[n] # {} \/ pc[n] = "rejected"

\* C10: after a settlement has failed, the process and with it the worker's
\* timer is still running.
C10_LoopSurvivesFailure == (\E n \in Serials : SettlementFailed(n)) => alive

\* The places of the queue that hold job n, and the dequeues that returned it.
QueuedAt(n) == {i \in DOMAIN queue : queue[i].n = n}
DispatchedAt(n) == {i \in DOMAIN dispatched : dispatched[i] = n}

\* C11: every enqueued job is either queued once and not yet handed to
\* processJob, or out of the queue and handed to processJob exactly once,
\* whatever the outcome of its settlement: no job is put back or handed over
\* a second time.
C11_NoRetry ==
    \A n \in Enqueued :
        /\ Cardinality(QueuedAt(n)) + Cardinality(DispatchedAt(n)) = 1
        /\ Dispatched(n) <=> DispatchedAt(n) # {}

\* C11 witness: one settlement has succeeded, another has failed at
\* validation and then at the store, and the queue is empty.
C11_Witness ==
    \E n, k \in Enqueued :
        /\ ValidSource(n) /\ pc[n] = "done" /\ StatusIs(ChargeId(n), "succeeded")
        /\ ~ValidSource(k) /\ pc[k] = "rejected" /\ storeFailed[k] # {}
        /\ queue = << >>

\* The stored row of job n's charge carries the job's payload.
RowEqualsPayload(n) ==
    LET data == jobs[n].data
        row == charges[data.id]
    IN  /\ row.id = data.id
        /\ row.merchant_id = data.merchant_id
        /\ row.amount = data.amount
        /\ row.currency = data.currency
        /\ row.description = data.description

\* C12: once the settlement of a job with a valid source has completed, no
\* query of it having met a store failure, the store holds a row for its id
\* whose id, merchant_id, amount, currency and description are the job's and
\* whose status is succeeded.
C12_ValidJobSucceeds ==
    \A n \in Enqueued :
        (ValidSource(n) /\ pc[n] = "done" /\ storeFailed[n] = {})
            => /\ HasRow(charges, ChargeId(n))
               /\ RowEqualsPayload(n)
               /\ Status(ChargeId(n)) = "succeeded"

\* C12 witness: a job with a valid source has completed without a store
\* failure and its row has had a metadata update, while a second job that
\* carries the same id for another merchant has ended.
C12_Witness ==
    \E n, k \in Enqueued :
        /\ n # k /\ ChargeId(n) = ChargeId(k) /\ Ended(k)
        /\ jobs[n].data.merchant_id # jobs[k].data.merchant_id
        /\ ValidSource(n) /\ pc[n] = "done" /\ storeFailed[n] = {}
        /\ charges[ChargeId(n)].metadata = "meta"

\* The four fields of a row that identify the charge.
Identity(row) == << row.id, row.merchant_id, row.amount, row.currency >>

\* C13: no step removes a row or changes the id, merchant_id, amount or
\* currency of a row the store holds; and on every store the program
\* reaches, the capture's UPDATE by any merchant leaves these four fields of
\* every row as they are.
C13_IdentityImmutable ==
    /\ [][\A id \in ChargeIds :
            HasRow(charges, id)
                => /\ HasRow(charges', id)
                   /\ Identity(charges'[id]) = Identity(charges[id])]_vars
    /\ [](\A id \in DOMAIN charges, m \in Merchants :
            LET after == SetCaptured(charges, id, m) IN
              /\ DOMAIN after = DOMAIN charges
              /\ \A x \in DOMAIN charges :
                    Identity(after[x]) = Identity(charges[x]))

\* C13 witness: a row has had its status and its metadata changed, and a
\* second job carrying its id for another merchant has been through its
\* settlement.
C13_Witness ==
    \E n, k \in Enqueued :
        /\ n # k /\ ChargeId(n) = ChargeId(k) /\ Ended(k)
        /\ jobs[n].data.merchant_id # jobs[k].data.merchant_id
        /\ StatusIs(ChargeId(n), "succeeded")
        /\ insertedBy[ChargeId(n)] = n
        /\ charges[ChargeId(n)].metadata = "meta"
        /\ Identity(charges[ChargeId(n)])
              = << ChargeId(n), jobs[n].data.merchant_id, jobs[n].data.amount,
                   jobs[n].data.currency >>

\* The ids of the rows a step creates or modifies.
Written == {x \in DOMAIN charges' : x \notin DOMAIN charges \/ charges'[x] # charges[x]}

\* C14: a read, a metadata update and a capture by merchant M return only a
\* row of M; and every step of a metadata update or of a capture by M, and
\* every settlement step of a job of M (its inserts and its update to
\* succeeded), creates or modifies only rows whose merchant_id is M.
C14_MerchantScoped ==
    /\ [](\A id \in AllIds, m \in Merchants :
            /\ GetChargeResponse(id, m, TRUE).code = 200
                  => GetChargeResponse(id, m, TRUE).body.merchant_id = m
            /\ \A md \in MetadataValues :
                  UpdateMetadataResponse(id, m, md, TRUE).code = 200
                    => UpdateMetadataResponse(id, m, md, TRUE).body.merchant_id = m
            /\ CaptureSelectResponse(id, m, TRUE).code = 0
                  => charges[id].merchant_id = m)
    /\ [](\A c \in BagToSet(captures) :
            /\ ScopedRows(charges, c.id, c.merchant_id) # {}
            /\ CaptureUpdateResponse(c).body.merchant_id = c.merchant_id)
    /\ [][charges' # charges =>
            /\ \A id \in AllIds, m \in Merchants, md \in MetadataValues :
                  UpdateMetadata(id, m, md)
                    => \A x \in Written : charges'[x].merchant_id = m
            /\ \A c \in BagToSet(captures) :
                  CaptureUpdate(c)
                    => \A x \in Written : charges'[x].merchant_id = c.merchant_id
            /\ \A n \in Enqueued :
                  (pc[n] # "idle" /\ pc'[n] # pc[n])
                    => \A x \in Written :
                          charges'[x].merchant_id = jobs[n].data.merchant_id]_vars

\* C14 witness: the authorized charge of one merchant has been captured by
\* it, a job of the other merchant that carries the same id has been through
\* its settlement, and a charge of the other merchant has succeeded.
C14_Witness ==
    \E n, k \in Enqueued :
        /\ ChargeId(n) \in SeededIds /\ Ended(n)
        /\ jobs[n].data.merchant_id # charges[ChargeId(n)].merchant_id
        /\ StatusIs(ChargeId(n), "captured")
        /\ jobs[k].data.merchant_id = jobs[n].data.merchant_id
        /\ StatusIs(ChargeId(k), "succeeded")

\* C15: a status update to the status the charge already has is a no-op and
\* no error: on every store the program reaches, the worker's UPDATE with a
\* row's current status and the capture's UPDATE of a captured row return
\* the store as it is; and the step of a capture whose charge has been
\* captured meanwhile changes no row and is answered 200.
C15_UpdateStatusIdempotent ==
    /\ [](\A id \in DOMAIN charges :
            UpdateStatus(charges, id, Status(id)) = charges)
    /\ [](\A id \in DOMAIN charges, m \in Merchants :
            StatusIs(id, "captured") => SetCaptured(charges, id, m) = charges)
    /\ [][\A c \in BagToSet(captures) :
            (StatusIs(c.id, "captured") /\ CaptureUpdate(c))
                => /\ charges' = charges
                   /\ CaptureUpdateResponse(c).code = 200
                   /\ CaptureUpdateResponse(c).body = charges[c.id]]_vars

\* C15 witness: a capture is about to send its UPDATE for a charge that
\* another capture has captured and whose metadata has been set.
C15_Witness ==
    \E c \in BagToSet(captures) :
        StatusIs(c.id, "captured") /\ charges[c.id].metadata = "meta"

\* The jobs whose settlement a step starts.
Started == {n \in Serials : pc[n] = "idle" /\ pc'[n] # "idle"}

\* C16: no step takes more than one job out of the queue; a step that takes
\* one out takes the head, starts the settlement of that job and of no
\* other, and writes nothing to the store; no other step starts a
\* settlement; and on an empty queue a tick can change nothing.
C16_OneDequeuePerTick ==
    /\ [][/\ Len(queue') >= Len(queue) - 1
          /\ IF Len(queue') < Len(queue)
             THEN /\ queue' = Tail(queue)
                  /\ dispatched' = Append(dispatched, Head(queue).n)
                  /\ Started = {Head(queue).n}
                  /\ charges' = charges
             ELSE /\ dispatched' = dispatched
                  /\ Started = {}]_vars
    /\ [](queue = << >> => ~ENABLED (Tick /\ vars' # vars))

\* C16 witness: two jobs were queued, one tick has taken the first and left
\* the second queued.
C16_Witness ==
    /\ Len(jobs) = 2 /\ dispatched = << 1 >>
    /\ Len(queue) = 1 /\ queue[1].n = 2
    /\ pc[1] = "insert_pending" /\ pc[2] = "idle"

\* The settlements in flight.
InFlightSet == {n \in Serials : InFlight(n)}

\* C17: dispatch is fire-and-forget: whenever the process runs and a job is
\* queued, a tick can dequeue it and start its settlement, whatever
\* settlements are in flight, and these stay in flight beside the new one.
\* (That two settlements are in flight at once, and that a job dequeued
\* later ends first, is the witness.)
C17_FireAndForget ==
    (alive /\ queue # << >>)
        => ENABLED ( /\ Tick
                     /\ dispatched' = Append(dispatched, Head(queue).n)
                     /\ InFlightSet' = InFlightSet \cup {Head(queue).n} )

\* C17 witness: with a store that executes every query and ids of their
\* own, the job dequeued second has reached its terminal status while the
\* job dequeued first, in flight since before the second was dequeued, has
\* not.
C17_Witness ==
    /\ dispatched = << 1, 2 >>
    /\ pc[1] = "sleep" /\ StatusIs(ChargeId(1), "pending")
    /\ pc[2] = "done" /\ Terminal(ChargeId(2))
    /\ ChargeId(1) # ChargeId(2)

\* The statuses the pipeline writes.
PipelineStatuses == {"pending", "succeeded", "failed"}

\* C18: in every reachable state every stored charge has status pending,
\* succeeded or failed, none is authorized or captured, and so no capture
\* request succeeds: each is answered 404 or 400 after its SELECT and none
\* is on its way to its UPDATE.
C18_NeverAuthorized ==
    /\ \A id \in DOMAIN charges : Status(id) \in PipelineStatuses
    /\ \A id \in ChargeIds, m \in Merchants :
          CaptureSelectResponse(id, m, TRUE).code \in {404, 400}
    /\ captures = EmptyBag

\* C18 witness: the store holds a succeeded and a failed charge of one
\* merchant, whose capture requests are answered 400, while the other
\* merchant's are answered 404.
C18_Witness ==
    \E a, b \in DOMAIN charges, m, o \in Merchants :
        /\ StatusIs(a, "succeeded") /\ StatusIs(b, "failed")
        /\ CaptureSelectResponse(a, m, TRUE).code = 400
        /\ CaptureSelectResponse(b, m, TRUE).code = 400
        /\ CaptureSelectResponse(a, o, TRUE).code = 404

C20_QueueContract ==
    /\ [][jobs' # jobs =>
            /\ Len(jobs') = Len(jobs) + 1
            /\ queue' = Append(queue, jobs'[Len(jobs')])]_vars
    /\ [][dispatched' # dispatched =>
            /\ queue # << >>
            /\ dispatched' = Append(dispatched, Head(queue).n)
            /\ queue' = Tail(queue)
            /\ pc'[Head(queue).n] = FirstAwait(Head(queue))]_vars
    /\ []((alive /\ Len(jobs) < MaxJobs) =>
            \A id \in UsedIds \cup {FreshId}, m \in Merchants, s \in Sources :
                ENABLED Enqueue(NewCharge(id, m, 500), s))
    /\ []((alive /\ queue = << >>) =>
            ENABLED Tick /\ ~ENABLED (Tick /\ queue' # queue))

\* C20 witness: two jobs that carry the same charge id are queued together,
\* the second with an empty source.
C20_Witness ==
    /\ Len(queue) = 2
    /\ queue[1].data.id = queue[2].data.id
    /\ queue[2].data.source = ""
    /\ queue[1].n = 1 /\ queue[2].n = 2

\* C21: when jobs carry the same charge id, at most one INSERT for that id
\* ever succeeds (the row's inserter never changes and is a job that carries
\* the id), and every settlement step that creates or modifies a row is a
\* step of the job that inserted it: the settlement of any other job leaves
\* the row as it is, whatever the sources and the interleaving.
C21_DuplicateIdsOneWriter ==
    /\ [](\A id \in DOMAIN charges :
            /\ charges[id].id = id
            /\ id \in DOMAIN insertedBy
            /\ insertedBy[id] \in Enqueued
            /\ ChargeId(insertedBy[id]) = id)
    /\ [][insertedBy' # insertedBy =>
            \A id \in DOMAIN insertedBy : insertedBy'[id] = insertedBy[id]]_vars
    /\ [][charges' # charges =>
            \A n \in Enqueued :
                (pc[n] # "idle" /\ pc'[n] # pc[n])
                    => \A x \in Written :
                          /\ insertedBy'[x] = n
                          /\ HasRow(charges, x) => insertedBy[x] = n]_vars

\* C21 witness: two jobs of different merchants carry the same id; the one
\* dequeued first has an invalid source and its insert met the row of the
\* second, whose insert succeeded and which has updated the row to
\* succeeded.
C21_Witness ==
    /\ Len(jobs) = 2 /\ ChargeId(1) = ChargeId(2)
    /\ jobs[1].data.merchant_id # jobs[2].data.merchant_id
    /\ ~ValidSource(1) /\ ValidSource(2)
    /\ pc[1] = "rejected" /\ pc[2] = "done"
    /\ StatusIs(ChargeId(2), "succeeded")
    /\ insertedBy[ChargeId(2)] = 2
    /\ charges[ChargeId(2)].merchant_id = jobs[2].data.merchant_id

\* The places a job's charge can be in: waiting in the queue, in a
\* settlement that has not inserted it yet, in the store.
InQueue(n) == Cardinality(QueuedAt(n))
InSettlement(n) ==
    IF pc[n] \in {"insert_pending", "insert_failed"} /\ ~HasRow(charges, ChargeId(n))
    THEN 1 ELSE 0
InStore(n) == IF HasRow(charges, ChargeId(n)) THEN 1 ELSE 0

\* C22: with jobs that carry ids of their own and a store that executes
\* every query, every enqueued charge is in exactly one place (queued once,
\* or in a settlement that has not inserted it yet, or in the store as the
\* row its job inserted), and no charge has a row while its job is queued.
C22_Conservation ==
    /\ \A n, k \in Enqueued : n # k => ChargeId(n) # ChargeId(k)
    /\ \A n \in Enqueued :
          /\ InQueue(n) + InSettlement(n) + InStore(n) = 1
          /\ InQueue(n) > 0 => ~HasRow(charges, ChargeId(n))
          /\ HasRow(charges, ChargeId(n)) => insertedBy[ChargeId(n)] = n
    /\ Cardinality(DOMAIN charges) = Cardinality({n \in Enqueued : InStore(n) = 1})

\* C22 witness: of two accepted charges one is in the store, its settlement
\* ended, and the other is in a settlement that has not inserted it yet.
C22_Witness ==
    /\ Len(jobs) = 2 /\ queue = << >>
    /\ pc[1] = "done" /\ InStore(1) = 1
    /\ pc[2] = "insert_pending" /\ InSettlement(2) = 1 /\ InStore(2) = 0
====
